---- MODULE Spec2Model ----
(***************************************************************************)
(* Model of app_acessos_auth.py: the Streamlit dashboard that compares the *)
(* accesses of profiles (column Grupo of LUCASV.xlsx) and flags the        *)
(* accesses co-held by profiles that "Perfis Conflitantes.xlsx" declares   *)
(* to be in conflict.                                                      *)
(*                                                                         *)
(*  - Spec    : calcular_conflitos_para_selecionados as a pure function,   *)
(*              applied to every bounded (base, conf_df, selection).       *)
(*  - SpecApp : one browser session of the script: require_login,          *)
(*              login_form, mostrar_dashboard (loaders, selection, call of *)
(*              the reconciliation).                                       *)
(***************************************************************************)
EXTENDS Integers, Sequences, FiniteSets, TLC

VARIABLES
    base,                 \* DataFrame [Grupo, Tp.Sistema, Sistema, Modulo, Menu]: sequence of rows
    conf_df,              \* DataFrame [Perfil1, Perfil2, Motivo]: sequence of rows
    perfis_selecionados,  \* list of the selected profiles
    ret,                  \* outcome of calcular_conflitos_para_selecionados
    session_state,        \* st.session_state: authenticated, username
    secrets,              \* st.secrets: APP_USER, APP_PASSWORD
    environ,              \* os.environ: APP_USER, APP_PASSWORD
    pc,                   \* position of the script run of the session
    event,                \* the widget event that triggered the run
    widget_sel,           \* value of the multiselect kept by the session
    cache,                \* st.cache_data of the two loaders
    run                   \* what the current run has done: errors shown, screen, calls

vars == << base, conf_df, perfis_selecionados, ret, session_state, secrets,
           environ, pc, event, widget_sel, cache, run >>

-----------------------------------------------------------------------------
(* Bounds of the enumerated inputs *)

MaxRows == 3
MaxRules == 2
MaxSel == 3

-----------------------------------------------------------------------------
(* Values *)

Range(s) == {s[i] : i \in DOMAIN s}

\* A spreadsheet cell as pandas reads it: a text cell or an integer cell.
\* s is what Python's str() gives for it.
S(x) == [ty |-> "str", s |-> x]
N(x) == [ty |-> "int", s |-> x]

\* str(value), as .astype(str) and str(row["Motivo"]) apply it
str(c) == c.s

Profiles == {"Finance", "Audit", "Ops"}

\* The access tuples (Tp.Sistema, Sistema, Modulo, Menu) the inputs draw from:
\* the menu code 10 typed as a text cell and as a numeric cell, two distinct
\* tuples for drop_duplicates() and for set membership.
T_Menu10Txt == << S("ERP"), S("SAP"), S("GL"), S("10") >>
T_Menu10Num == << S("ERP"), S("SAP"), S("GL"), N("10") >>
Tuples == {T_Menu10Txt, T_Menu10Num}

\* The rows the assignment table draws from
BaseRows == [Grupo : Profiles, combo : Tuples]

\* The rows the conflict table draws from: a pair in both orientations with two
\* reasons, and a second pair
ConfRows ==
    { [Perfil1 |-> "Finance", Perfil2 |-> "Audit",   Motivo |-> S("SoD violation")],
      [Perfil1 |-> "Audit",   Perfil2 |-> "Finance", Motivo |-> S("Dual control")],
      [Perfil1 |-> "Audit",   Perfil2 |-> "Ops",     Motivo |-> S("SoD violation")] }

\* All sequences over X of length <= n without a repeated element
NoDupSeqs(X, n) ==
    UNION { { s \in [1..k -> X] : \A i, j \in 1..k : i < j => s[i] # s[j] } : k \in 0..n }

AllSeqs(X, n) == UNION { [1..k -> X] : k \in 0..n }

\* Python's order on the strings that the code sorts (sorted() compares code
\* points): the profile names, the reasons and the "P1 x P2" labels.
CodepointOrder ==
    << "Audit", "Audit x Finance", "Audit x Ops", "Dual control", "Finance",
       "Finance x Audit", "Finance x Ops", "Ops", "Ops x Audit", "Ops x Finance",
       "SoD violation" >>

StrLt(a, b) ==
    \E i, j \in DOMAIN CodepointOrder :
        CodepointOrder[i] = a /\ CodepointOrder[j] = b /\ i < j

\* sorted(X) for a set X of strings
RECURSIVE sorted(_)
sorted(X) ==
    IF X = {} THEN << >>
    ELSE LET m == CHOOSE x \in X : \A y \in X \ {x} : StrLt(x, y)
         IN  << m >> \o sorted(X \ {m})

\* sep.join(s)
RECURSIVE join(_, _)
join(sep, s) ==
    IF s = << >> THEN ""
    ELSE IF Len(s) = 1 THEN s[1]
    ELSE s[1] \o sep \o join(sep, Tail(s))

\* drop_duplicates() / unique(): the first occurrence of every value, in order
RECURSIVE drop_duplicates(_)
drop_duplicates(s) ==
    IF s = << >> THEN << >>
    ELSE LET r == drop_duplicates(SubSeq(s, 1, Len(s) - 1))
         IN  IF s[Len(s)] \in Range(r) THEN r ELSE Append(r, s[Len(s)])

\* itertools.combinations(s, 2): the pairs <<s[i], s[j]>>, i < j, in index order
RECURSIVE combinations2(_)
combinations2(s) ==
    IF Len(s) < 2 THEN << >>
    ELSE [k \in 1..(Len(s) - 1) |-> << s[1], s[k + 1] >>] \o combinations2(Tail(s))

-----------------------------------------------------------------------------
(* calcular_conflitos_para_selecionados *)

\* combo_key: the four fields as strings, joined by "||"
combo_key(t) == join("||", [i \in 1..4 |-> str(t[i])])

\* combos: the distinct tuples of the whole table, in order of first appearance
combos(b) == drop_duplicates([i \in DOMAIN b |-> b[i].combo])

\* combo_to_perfis: combo_key -> the Grupos of the rows with that key (unique())
combo_to_perfis(b) ==
    [k \in {combo_key(b[i].combo) : i \in DOMAIN b} |->
        LET rows == SelectSeq(b, LAMBDA r : combo_key(r.combo) = k)
        IN  drop_duplicates([i \in DOMAIN rows |-> rows[i].Grupo])]

\* perfil_to_set: selected profile -> set of its tuples
perfil_to_set(b, sel) ==
    [p \in Range(sel) |-> {b[i].combo : i \in {j \in DOMAIN b : b[j].Grupo = p}}]

\* set.intersection(*perfil_to_set.values()), for a non-empty selection
acessos_comuns_set(pts) ==
    {t \in UNION {pts[p] : p \in DOMAIN pts} : \A p \in DOMAIN pts : t \in pts[p]}

\* The profile's set minus the common set only, in place of the union of the others
exclusivos_menos_comuns(pts, sel) ==
    [p \in Range(sel) |-> pts[p] \ acessos_comuns_set(pts)]

\* exclusivos_por_perfil: the profile's set minus the union of the others'
exclusivos_por_perfil(pts, sel) ==
    [p \in Range(sel) |->
        LET outros == SelectSeq(sel, LAMBDA q : q # p)
        IN  pts[p] \ UNION {pts[q] : q \in Range(outros)}]

\* The cell of the presence matrix: the check mark, or the empty string
CheckMark == "v"
Warning == "!"

\* matriz, before the conflict columns: one row per row of combos, one column
\* per selected profile
matriz_presenca(b, sel, pts) ==
    LET cs == combos(b)
    IN  [i \in DOMAIN cs |->
            [combo |-> cs[i],
             perfil |-> [p \in Range(sel) |-> IF cs[i] \in pts[p] THEN CheckMark ELSE ""]]]

\* conf_filtered: the rules whose two profiles are both selected
conf_filtered(conf, sel) ==
    SelectSeq(conf, LAMBDA r : r.Perfil1 \in Range(sel) /\ r.Perfil2 \in Range(sel))

\* An ordered key (p1, p2) in place of the frozenset: what a tuple key would do
pair_key_ordered(p1, p2) == << p1, p2 >>

\* frozenset({p1, p2})
pair_key(p1, p2) == {p1, p2}

\* conf_pair_motivo: pair of profiles -> set of the str() of its reasons
conf_pair_motivo(cf) ==
    [k \in {pair_key(cf[i].Perfil1, cf[i].Perfil2) : i \in DOMAIN cf} |->
        {str(cf[i].Motivo) :
            i \in {j \in DOMAIN cf : pair_key(cf[j].Perfil1, cf[j].Perfil2) = k}}]

\* The list that the loop over combinations(perfis_sel, 2) appends for one
\* combo_key whose owners are perfis
conflitos_do_combo(perfis, sel, cpm) ==
    LET perfis_sel == SelectSeq(perfis, LAMBDA p : p \in Range(sel))
        pares == IF Len(perfis_sel) < 2 THEN << >>
                 ELSE SelectSeq(combinations2(perfis_sel),
                                LAMBDA pr : pair_key(pr[1], pr[2]) \in DOMAIN cpm)
    IN  [i \in DOMAIN pares |->
            [Perfil1 |-> pares[i][1],
             Perfil2 |-> pares[i][2],
             Motivo |-> join(" | ", sorted(cpm[pair_key(pares[i][1], pares[i][2])]))]]

\* combo_conflicts: combo_key -> list of {Perfil1, Perfil2, Motivo}; a key is
\* present only when something was appended for it
combo_conflicts(b, sel, cpm) ==
    LET ctp == combo_to_perfis(b)
    IN  [k \in {x \in DOMAIN ctp : conflitos_do_combo(ctp[x], sel, cpm) # << >>} |->
            conflitos_do_combo(ctp[k], sel, cpm)]

\* The label with the two profiles exchanged
pair_string_swapped(c) == c.Perfil2 \o " x " \o c.Perfil1

\* f"{c['Perfil1']} x {c['Perfil2']}"
pair_string(c) == c.Perfil1 \o " x " \o c.Perfil2

\* The columns "Conflito?" and "Perfis em Conflito" of one row of combos
conflito_flag(t, cc) ==
    IF combo_key(t) \in DOMAIN cc THEN Warning ELSE ""

conflito_descr(t, cc) ==
    IF combo_key(t) \in DOMAIN cc
    THEN join("; ", sorted({pair_string(c) : c \in Range(cc[combo_key(t)])}))
    ELSE ""

\* registros: for every row of combos, one record per entry of its combo_key
RECURSIVE registros(_, _)
registros(cs, cc) ==
    IF cs = << >> THEN << >>
    ELSE LET t == cs[Len(cs)]
             cl == IF combo_key(t) \in DOMAIN cc THEN cc[combo_key(t)] ELSE << >>
         IN  registros(SubSeq(cs, 1, Len(cs) - 1), cc) \o
             [i \in DOMAIN cl |->
                 [Perfil1 |-> cl[i].Perfil1, Perfil2 |-> cl[i].Perfil2,
                  Motivo |-> cl[i].Motivo, combo |-> t]]

\* What a call leaves: the five returned values, or the exception it raised
NotCalled ==
    [outcome |-> "none", matriz |-> << >>, perfil_to_set |-> << >>,
     exclusivos_por_perfil |-> << >>, acessos_comuns_set |-> {}, conflicts_df |-> << >>]

Raised(e) == [NotCalled EXCEPT !.outcome = e]

calcular_conflitos_para_selecionados(b, conf, sel) ==
    IF sel = << >>
    THEN Raised("TypeError")   \* set.intersection() without an argument
    ELSE
    LET pts == perfil_to_set(b, sel)
        mp == matriz_presenca(b, sel, pts)
        cf == conf_filtered(conf, sel)
        cc == combo_conflicts(b, sel, conf_pair_motivo(cf))
    IN  [outcome |-> "returned",
         matriz |->
            [i \in DOMAIN mp |->
                [combo |-> mp[i].combo,
                 perfil |-> mp[i].perfil,
                 Conflito |-> IF cf = << >> THEN "" ELSE conflito_flag(mp[i].combo, cc),
                 PerfisEmConflito |->
                    IF cf = << >> THEN "" ELSE conflito_descr(mp[i].combo, cc)]],
         perfil_to_set |-> pts,
         exclusivos_por_perfil |-> exclusivos_por_perfil(pts, sel),
         acessos_comuns_set |-> acessos_comuns_set(pts),
         conflicts_df |-> IF cf = << >> THEN << >> ELSE registros(combos(b), cc)]

-----------------------------------------------------------------------------
(* Spec: the reconciliation applied to every bounded input *)

NoSession == [authenticated |-> "unset", username |-> "unset"]

NoEvent == [kind |-> "none", username |-> "", password |-> "", sel |-> << >>]

NoRun ==
    [raised |-> {}, errors |-> {}, screen |-> "none", options |-> << >>, calc |-> FALSE]

NoSecrets == [APP_USER |-> "None", APP_PASSWORD |-> "None"]

\* The inputs of a call: a table of at least one row, without a repeated row
\* (carregar_base_lucasv drops duplicates) and without a missing cell; any
\* list of rules; any list of distinct profiles, known to the table or not.
Init ==
    /\ base \in NoDupSeqs(BaseRows, MaxRows) \ { << >> }
    /\ conf_df \in AllSeqs(ConfRows, MaxRules)
    /\ perfis_selecionados \in NoDupSeqs(Profiles, MaxSel)
    /\ ret = NotCalled
    /\ session_state = NoSession
    /\ secrets = NoSecrets
    /\ environ = NoSecrets
    /\ pc = "call"
    /\ event = NoEvent
    /\ widget_sel = [touched |-> FALSE, value |-> << >>]
    /\ cache = [lucasv |-> << >>, conflitos |-> << >>]
    /\ run = NoRun

\* A direct call of the function
Reconcile ==
    /\ pc = "call"
    /\ ret' = calcular_conflitos_para_selecionados(base, conf_df, perfis_selecionados)
    /\ pc' = "called"
    /\ UNCHANGED << base, conf_df, perfis_selecionados, session_state, secrets,
                    environ, event, widget_sel, cache, run >>

Next == Reconcile

Spec == Init /\ [][Next]_vars

-----------------------------------------------------------------------------
(* Vocabulary of the claims about the reconciliation.  Owners and rules are  *)
(* read off the input tables, field by field, not off the function's result. *)

Returned == pc = "called" /\ ret.outcome = "returned"

SelSet == Range(perfis_selecionados)

\* Profile p holds tuple t: a row of the table has Grupo p and the four fields of t
Holds(p, t) == \E i \in DOMAIN base : base[i].Grupo = p /\ base[i].combo = t

Grupos == {base[i].Grupo : i \in DOMAIN base}

TuplesOfBase == {base[i].combo : i \in DOMAIN base}

\* Some rule names p and q, in either orientation
RulePair(p, q) ==
    \E i \in DOMAIN conf_df : {conf_df[i].Perfil1, conf_df[i].Perfil2} = {p, q}

\* The str() of the reasons of every rule for the unordered pair {p, q}
ReasonsOf(p, q) ==
    {str(conf_df[i].Motivo) :
        i \in {j \in DOMAIN conf_df : {conf_df[j].Perfil1, conf_df[j].Perfil2} = {p, q}}}

\* Two distinct selected profiles both hold t and form a conflict rule
CoHeldConflict(t) ==
    \E p, q \in SelSet :
        p # q /\ Holds(p, t) /\ Holds(q, t) /\ RulePair(p, q)

\* Some tuple is held by two distinct selected profiles
SomeTupleShared ==
    \E t \in TuplesOfBase : \E p, q \in SelSet : p # q /\ Holds(p, t) /\ Holds(q, t)

MatrixRows(t) == {i \in DOMAIN ret.matriz : ret.matriz[i].combo = t}

ReportRows(t) == {i \in DOMAIN ret.conflicts_df : ret.conflicts_df[i].combo = t}

-----------------------------------------------------------------------------
(* C1 *)

\* C1: in the returned matrix the row of tuple t carries the conflict flag if
\* and only if two distinct selected profiles both hold t itself and are the
\* pair of some conflict rule.
C1_FlagIffCoHeldConflict ==
    (Returned /\ Len(perfis_selecionados) >= 2) =>
        \A i \in DOMAIN ret.matriz :
            (ret.matriz[i].Conflito = Warning) <=> CoHeldConflict(ret.matriz[i].combo)

\* The sound half of C1: a tuple co-held by a conflicting pair is flagged.
C1_CoHeldConflictIsFlagged ==
    (Returned /\ Len(perfis_selecionados) >= 2) =>
        \A i \in DOMAIN ret.matriz :
            CoHeldConflict(ret.matriz[i].combo) => ret.matriz[i].Conflito = Warning

-----------------------------------------------------------------------------
(* C2 *)

InvalidSelection ==
    \/ Len(perfis_selecionados) < 2
    \/ \E p \in SelSet : p \notin Grupos

C2_DashboardSelectionValid ==
    (pc = "calc" \/ run.calc) =>
        /\ Len(perfis_selecionados) >= 2
        /\ SelSet \subseteq Grupos

-----------------------------------------------------------------------------
(* C4 *)

\* Scenario B for tuple t: Finance and Audit are the selection, both hold t, the
\* rule (Finance, Audit, SoD violation) is in the table and every rule for that
\* pair gives that reason.
ScenarioB(t) ==
    /\ Returned
    /\ SelSet = {"Finance", "Audit"}
    /\ Holds("Finance", t) /\ Holds("Audit", t)
    /\ \E i \in DOMAIN conf_df :
          conf_df[i] = [Perfil1 |-> "Finance", Perfil2 |-> "Audit",
                        Motivo |-> S("SoD violation")]
    /\ ReasonsOf("Finance", "Audit") = {"SoD violation"}

\* The first row of the table with the combo_key of t and Grupo p
FirstRow(p, t) ==
    CHOOSE i \in DOMAIN base :
        /\ base[i].Grupo = p /\ combo_key(base[i].combo) = combo_key(t)
        /\ \A j \in 1..(i - 1) :
              ~(base[j].Grupo = p /\ combo_key(base[j].combo) = combo_key(t))

\* C4 as stated: in scenario B the row of t is flagged, described as exactly
\* "Finance x Audit", and the report has exactly one row for t, with Motivo
\* "SoD violation", whatever the order of the table's rows.
C4_ScenarioB_FinanceFirst ==
    \A t \in Tuples :
        ScenarioB(t) =>
            /\ \A i \in MatrixRows(t) :
                  /\ ret.matriz[i].Conflito = Warning
                  /\ ret.matriz[i].PerfisEmConflito = "Finance x Audit"
            /\ Cardinality(MatrixRows(t)) = 1
            /\ Cardinality(ReportRows(t)) = 1
            /\ \A i \in ReportRows(t) : ret.conflicts_df[i].Motivo = "SoD violation"

\* C4 amended: in scenario B the row of t is flagged, the report has exactly one
\* row for t, with Motivo "SoD violation", and the description and that row name
\* the two profiles in the order of their first rows with the combo_key of t:
\* "Finance x Audit" if Finance's comes first, "Audit x Finance" otherwise.
C4_ScenarioB_RowOrder ==
    \A t \in Tuples :
        ScenarioB(t) =>
            LET financeFirst == FirstRow("Finance", t) < FirstRow("Audit", t)
                p1 == IF financeFirst THEN "Finance" ELSE "Audit"
                p2 == IF financeFirst THEN "Audit" ELSE "Finance"
            IN  /\ \A i \in MatrixRows(t) :
                      /\ ret.matriz[i].Conflito = Warning
                      /\ ret.matriz[i].PerfisEmConflito = p1 \o " x " \o p2
                /\ Cardinality(MatrixRows(t)) = 1
                /\ Cardinality(ReportRows(t)) = 1
                /\ \A i \in ReportRows(t) :
                      /\ ret.conflicts_df[i].Motivo = "SoD violation"
                      /\ ret.conflicts_df[i].Perfil1 = p1
                      /\ ret.conflicts_df[i].Perfil2 = p2

\* Scenario B on a table where Audit's row of t precedes Finance's
C4_Witness ==
    \E t \in Tuples :
        /\ ScenarioB(t)
        /\ FirstRow("Audit", t) < FirstRow("Finance", t)
        /\ \E i \in DOMAIN ret.matriz : ret.matriz[i].PerfisEmConflito = "Audit x Finance"

-----------------------------------------------------------------------------
(* C5 *)

\* conf with the two profiles of its i-th rule exchanged
SwapRule(conf, i) ==
    [conf EXCEPT ![i] = [Perfil1 |-> conf[i].Perfil2, Perfil2 |-> conf[i].Perfil1,
                         Motivo |-> conf[i].Motivo]]

\* C5: exchanging Perfil1 and Perfil2 of any one rule leaves every returned
\* value the same: the matrix with its flags and descriptions, and every row
\* of the conflict report.
C5_RuleOrientationIrrelevant ==
    pc = "called" =>
        \A i \in DOMAIN conf_df :
            calcular_conflitos_para_selecionados(
                base, SwapRule(conf_df, i), perfis_selecionados) = ret

\* A call that reports a conflict from a rule between two distinct selected
\* profiles, the rule whose orientation is exchanged
C5_Witness ==
    /\ Returned
    /\ ret.conflicts_df # << >>
    /\ \E i \in DOMAIN conf_df :
          /\ conf_df[i].Perfil1 # conf_df[i].Perfil2
          /\ conf_df[i].Perfil1 = ret.conflicts_df[1].Perfil2
          /\ conf_df[i].Perfil2 = ret.conflicts_df[1].Perfil1

-----------------------------------------------------------------------------
(* C6 *)

\* The selected profiles that hold t
Holders(t) == {p \in SelSet : Holds(p, t)}

UnionSelected == {t \in TuplesOfBase : Holders(t) # {}}

\* C6: with >= 2 selected profiles every tuple of the union is in the exclusive
\* set of p iff p is its only selected holder, in the common set iff every
\* selected profile holds it, and in neither otherwise; exclusive sets are
\* pairwise disjoint, inside the profile's own set, and disjoint from the
\* common set.
C6_ExclusiveCommonRemainderPartition ==
    (Returned /\ Len(perfis_selecionados) >= 2) =>
        /\ \A p \in SelSet : ret.perfil_to_set[p] = {t \in TuplesOfBase : Holds(p, t)}
        /\ \A t \in UnionSelected :
              /\ \A p \in SelSet :
                    t \in ret.exclusivos_por_perfil[p] <=> Holders(t) = {p}
              /\ t \in ret.acessos_comuns_set <=> Holders(t) = SelSet
        /\ \A p \in SelSet :
              /\ ret.exclusivos_por_perfil[p] \subseteq ret.perfil_to_set[p]
              /\ ret.exclusivos_por_perfil[p] \cap ret.acessos_comuns_set = {}
              /\ \A q \in SelSet \ {p} :
                    ret.exclusivos_por_perfil[p] \cap ret.exclusivos_por_perfil[q] = {}
        /\ ret.acessos_comuns_set \subseteq UnionSelected

\* Three selected profiles, one tuple exclusive to a profile and one tuple held
\* by two of the three
C6_Witness ==
    /\ Returned
    /\ Len(perfis_selecionados) = 3
    /\ \E t \in UnionSelected : Cardinality(Holders(t)) = 1
    /\ \E t \in UnionSelected : Cardinality(Holders(t)) = 2

-----------------------------------------------------------------------------
(* C7 *)

\* C7: when no tuple is held by two selected profiles, the conflict report is
\* empty and no row is flagged, whatever the rules; with 2 selected profiles
\* the common set is then empty and each exclusive set is the profile's set.
C7_NoSharedTupleNoConflict ==
    (Returned /\ ~SomeTupleShared) =>
        /\ ret.conflicts_df = << >>
        /\ \A i \in DOMAIN ret.matriz :
              ret.matriz[i].Conflito = "" /\ ret.matriz[i].PerfisEmConflito = ""
        /\ Len(perfis_selecionados) = 2 =>
              /\ ret.acessos_comuns_set = {}
              /\ \A p \in SelSet : ret.exclusivos_por_perfil[p] = ret.perfil_to_set[p]

-----------------------------------------------------------------------------
(* C8 *)

\* The rows of the report for tuple t and the unordered pair {p, q}
ReportRowsOf(t, p, q) ==
    {i \in ReportRows(t) :
        {ret.conflicts_df[i].Perfil1, ret.conflicts_df[i].Perfil2} = {p, q}}

\* Every selected, conflicting pair of co-holders of a tuple has exactly one
\* row, whose Motivo is the sorted join of all the reasons of the pair
OneRowPerCoHeldPair ==
    \A t \in TuplesOfBase : \A p, q \in SelSet :
        (p # q /\ Holds(p, t) /\ Holds(q, t) /\ RulePair(p, q)) =>
            /\ Cardinality(ReportRowsOf(t, p, q)) = 1
            /\ \A i \in ReportRowsOf(t, p, q) :
                  ret.conflicts_df[i].Motivo = join(" | ", sorted(ReasonsOf(p, q)))

\* Every row of the report is the row of such a pair of co-holders of its tuple
EveryRowIsCoHeldPair ==
    \A i \in DOMAIN ret.conflicts_df :
        LET r == ret.conflicts_df[i]
        IN  /\ r.Perfil1 # r.Perfil2
            /\ r.Perfil1 \in SelSet /\ r.Perfil2 \in SelSet
            /\ Holds(r.Perfil1, r.combo) /\ Holds(r.Perfil2, r.combo)
            /\ RulePair(r.Perfil1, r.Perfil2)

\* C8: the report has exactly one row per (tuple, unordered conflicting pair of
\* selected co-holders) and no other row; the Motivo of the row is the sorted
\* join of all distinct reasons of the rules for the pair.
C8_ReportIsOneRowPerCoHeldPair ==
    Returned => (OneRowPerCoHeldPair /\ EveryRowIsCoHeldPair)

\* The part of C8 about merging: no reason overwrites another and no pair is
\* reported twice for one tuple.
C8_OneRowPerCoHeldPair ==
    Returned => OneRowPerCoHeldPair

-----------------------------------------------------------------------------
(* C9 *)

\* C9: the matrix has exactly one row per distinct tuple of the table; the
\* column of selected profile p is marked iff the tuple is in perfil_to_set[p];
\* the row of a tuple that no selected profile holds is blank in every profile
\* column and has an empty flag and description.
C9_MatrixRowsAndBlankRows ==
    Returned =>
        /\ \A t \in TuplesOfBase : Cardinality(MatrixRows(t)) = 1
        /\ Len(ret.matriz) = Cardinality(TuplesOfBase)
        /\ \A i \in DOMAIN ret.matriz : \A p \in SelSet :
              /\ ret.matriz[i].perfil[p] = CheckMark
                    <=> ret.matriz[i].combo \in ret.perfil_to_set[p]
              /\ ret.matriz[i].perfil[p] = CheckMark <=> Holds(p, ret.matriz[i].combo)
        /\ \A i \in DOMAIN ret.matriz :
              Holders(ret.matriz[i].combo) = {} =>
                  /\ \A p \in SelSet : ret.matriz[i].perfil[p] = ""
                  /\ ret.matriz[i].Conflito = ""
                  /\ ret.matriz[i].PerfisEmConflito = ""

\* The part of C9 about rows and profile columns alone
C9_MatrixRowsAndMarks ==
    Returned =>
        /\ \A t \in TuplesOfBase : Cardinality(MatrixRows(t)) = 1
        /\ Len(ret.matriz) = Cardinality(TuplesOfBase)
        /\ \A i \in DOMAIN ret.matriz : \A p \in SelSet :
              ret.matriz[i].perfil[p] = CheckMark <=> Holds(p, ret.matriz[i].combo)

-----------------------------------------------------------------------------
(* SpecApp: one session of the script.  A run starts at main() on a widget   *)
(* event and goes through require_login and mostrar_dashboard.               *)

NaN == [ty |-> "nan", s |-> "nan"]

\* What pd.read_excel(GITHUB_LUCASV_URL) may give: an exception, a sheet that
\* lacks a column, a sheet of three profiles (one row twice), a sheet of one
\* profile.
LucasvReads ==
    { [ok |-> FALSE, columns |-> { }, rows |-> << >>],
      [ok |-> TRUE, columns |-> {"Grupo", "Sistema", "Menu"}, rows |-> << >>],
      [ok |-> TRUE, columns |-> {"Grupo", "Tp.Sistema", "Sistema", "Modulo", "Menu"},
       rows |-> << [Grupo |-> "Ops", combo |-> T_Menu10Num],
                   [Grupo |-> "Finance", combo |-> T_Menu10Txt],
                   [Grupo |-> "Audit", combo |-> T_Menu10Txt],
                   [Grupo |-> "Finance", combo |-> T_Menu10Txt] >>],
      [ok |-> TRUE, columns |-> {"Grupo", "Tp.Sistema", "Sistema", "Modulo", "Menu"},
       rows |-> << [Grupo |-> "Finance", combo |-> T_Menu10Txt] >>] }

cols_esperadas == {"Grupo", "Tp.Sistema", "Sistema", "Modulo", "Menu"}

\* carregar_base_lucasv: the table, or the exception ("raised")
carregar_base_lucasv(read) ==
    IF ~read.ok THEN [raised |-> TRUE, df |-> << >>]
    ELSE IF cols_esperadas \ read.columns # {} THEN [raised |-> TRUE, df |-> << >>]
    ELSE [raised |-> FALSE, df |-> drop_duplicates(read.rows)]

\* What pd.read_excel(GITHUB_CONFLITOS_URL, header=None) may give, columns 1..3:
\* an exception, a sheet without the header line, a sheet with a title line,
\* the header line, a rule and a row without Perfil1.
ConflitosReads ==
    { [ok |-> FALSE, rows |-> << >>],
      [ok |-> TRUE,
       rows |-> << << S("Finance"), S("Audit"), S("SoD violation") >> >>],
      [ok |-> TRUE,
       rows |-> << << S("Perfis Conflitantes"), NaN, NaN >>,
                   << S("PERFIL I"), S("PERFIL II"), S("MOTIVO") >>,
                   << S("Finance"), S("Audit"), S("SoD violation") >>,
                   << NaN, S("Ops"), S("Dual control") >> >>] }

\* carregar_conflitos: the rows below the "PERFIL I" / "PERFIL II" line with
\* both profiles present; indexing the empty list of header lines raises
carregar_conflitos(read) ==
    LET hdr == {i \in DOMAIN read.rows :
                    read.rows[i][1] = S("PERFIL I") /\ read.rows[i][2] = S("PERFIL II")}
    IN  IF ~read.ok \/ hdr = {} THEN [raised |-> TRUE, df |-> << >>]
        ELSE LET header_idx == CHOOSE i \in hdr : \A j \in hdr : i <= j
                 below == SubSeq(read.rows, header_idx + 1, Len(read.rows))
                 kept == SelectSeq(below, LAMBDA r : r[1] # NaN /\ r[2] # NaN)
             IN  [raised |-> FALSE,
                  df |-> [i \in DOMAIN kept |->
                            [Perfil1 |-> kept[i][1].s, Perfil2 |-> kept[i][2].s,
                             Motivo |-> kept[i][3]]]]

\* A rule table that is not empty, in place of the empty DataFrame
conf_df_stale ==
    << [Perfil1 |-> "Finance", Perfil2 |-> "Audit", Motivo |-> S("SoD violation")] >>

\* The conflict table the dashboard goes on with when carregar_conflitos raised
conf_df_apos_erro == << >>

\* get_credentials: st.secrets, then the environment, then the defaults
get_credentials(sec, env) ==
    << IF sec.APP_USER # "None" THEN sec.APP_USER
       ELSE IF env.APP_USER # "None" THEN env.APP_USER ELSE "admin",
       IF sec.APP_PASSWORD # "None" THEN sec.APP_PASSWORD
       ELSE IF env.APP_PASSWORD # "None" THEN env.APP_PASSWORD ELSE "1234" >>

\* username == valid_user and password == valid_pass
credentials_match(username, password, valid) ==
    username = valid[1] /\ password = valid[2]

\* The test of the key's presence, in place of the test of its value
is_authenticated_key_present(ss) == ss.authenticated # "unset"

\* st.session_state["authenticated"], as require_login tests it
is_authenticated(ss) == ss.authenticated = "True"

\* todos_perfis = sorted(base["Grupo"].unique())
todos_perfis(b) == sorted({b[i].Grupo : i \in DOMAIN b})

\* The value of the multiselect: the default until the user changes it
multiselect(w, options) ==
    IF w.touched THEN w.value
    ELSE IF Len(options) >= 2 THEN SubSeq(options, 1, 2) ELSE << >>

Usernames == {"admin", "alice", "bob"}
Passwords == {"1234", "s3cret", "pw"}

InitApp ==
    /\ base = << >>
    /\ conf_df = << >>
    /\ perfis_selecionados = << >>
    /\ ret = NotCalled
    /\ session_state = NoSession
    /\ secrets \in [APP_USER : {"None", "alice"}, APP_PASSWORD : {"None", "s3cret"}]
    /\ environ \in [APP_USER : {"None", "bob"}, APP_PASSWORD : {"None", "pw"}]
    /\ pc = "idle"
    /\ event = NoEvent
    /\ widget_sel = [touched |-> FALSE, value |-> << >>]
    /\ cache = [lucasv |-> << >>, conflitos |-> << >>]
    /\ run = NoRun

\* The widget events the page on screen offers
Events ==
    {NoEvent}
    \cup (IF run.screen = "login"
          THEN {[NoEvent EXCEPT !.kind = "submit", !.username = u, !.password = p] :
                    u \in Usernames, p \in Passwords}
          ELSE {})
    \cup (IF run.screen = "dashboard"
          THEN {[NoEvent EXCEPT !.kind = "sair"]}
          ELSE {})
    \cup (IF run.screen = "dashboard" /\ run.options # << >>
          THEN {[NoEvent EXCEPT !.kind = "select", !.sel = v] :
                    v \in NoDupSeqs(Range(run.options), MaxSel)}
          ELSE {})

\* A script run starts: main() is entered with the event's widget values
StartRun ==
    /\ pc = "idle"
    /\ \E e \in Events :
          /\ event' = e
          /\ widget_sel' = IF e.kind = "select"
                           THEN [touched |-> TRUE, value |-> e.sel] ELSE widget_sel
    /\ pc' = "require_login"
    /\ run' = NoRun
    /\ base' = << >> /\ conf_df' = << >> /\ perfis_selecionados' = << >>
    /\ ret' = NotCalled
    /\ UNCHANGED << session_state, secrets, environ, cache >>

\* require_login
RequireLogin ==
    /\ pc = "require_login"
    /\ session_state' =
          IF session_state.authenticated = "unset"
          THEN [session_state EXCEPT !.authenticated = "False"]
          ELSE session_state
    /\ pc' = IF is_authenticated(session_state') THEN "dashboard" ELSE "login_form"
    /\ UNCHANGED << base, conf_df, perfis_selecionados, ret, secrets, environ,
                    event, widget_sel, cache, run >>

\* login_form, then st.stop(); a successful login reruns the script
LoginForm ==
    /\ pc = "login_form"
    /\ IF event.kind = "submit"
            /\ credentials_match(event.username, event.password,
                                 get_credentials(secrets, environ))
       THEN /\ session_state' = [authenticated |-> "True", username |-> event.username]
            /\ pc' = "require_login"
            /\ event' = NoEvent
            /\ run' = NoRun
       ELSE /\ run' = [run EXCEPT !.screen = "login",
                                  !.errors = IF event.kind = "submit"
                                             THEN run.errors \cup {"login"}
                                             ELSE run.errors]
            /\ pc' = "idle"
            /\ UNCHANGED << session_state, event >>
    /\ UNCHANGED << base, conf_df, perfis_selecionados, ret, secrets, environ,
                    widget_sel, cache >>

\* mostrar_dashboard, the sidebar: the logged-in user and the button "Sair"
Sidebar ==
    /\ pc = "dashboard"
    /\ IF event.kind = "sair"
       THEN /\ session_state' = [authenticated |-> "False", username |-> ""]
            /\ pc' = "require_login"
            /\ event' = NoEvent
            /\ run' = NoRun
       ELSE /\ run' = [run EXCEPT !.screen = "dashboard"]
            /\ pc' = "load_base"
            /\ UNCHANGED << session_state, event >>
    /\ UNCHANGED << base, conf_df, perfis_selecionados, ret, secrets, environ,
                    widget_sel, cache >>

\* mostrar_dashboard: base = carregar_base_lucasv() under st.cache_data
CarregarBase ==
    /\ pc = "load_base"
    /\ \/ /\ cache.lucasv # << >>
          /\ base' = cache.lucasv
          /\ pc' = "load_conf"
          /\ UNCHANGED << cache, run >>
       \/ /\ cache.lucasv = << >>
          /\ \E read \in LucasvReads :
                LET r == carregar_base_lucasv(read)
                IN  IF r.raised
                    THEN /\ run' = [run EXCEPT !.raised = run.raised \cup {"LUCASV"},
                                               !.errors = run.errors \cup {"LUCASV"}]
                         /\ pc' = "idle"
                         /\ UNCHANGED << base, cache >>
                    ELSE /\ base' = r.df
                         /\ cache' = [cache EXCEPT !.lucasv = r.df]
                         /\ pc' = "load_conf"
                         /\ UNCHANGED run
    /\ UNCHANGED << conf_df, perfis_selecionados, ret, session_state, secrets,
                    environ, event, widget_sel >>

\* mostrar_dashboard: conf_df = carregar_conflitos() under st.cache_data
CarregarConflitos ==
    /\ pc = "load_conf"
    /\ \/ /\ cache.conflitos # << >>
          /\ conf_df' = cache.conflitos
          /\ UNCHANGED << cache, run >>
       \/ /\ cache.conflitos = << >>
          /\ \E read \in ConflitosReads :
                LET r == carregar_conflitos(read)
                IN  IF r.raised
                    THEN /\ run' = [run EXCEPT !.raised = run.raised \cup {"Conflitos"},
                                               !.errors = run.errors \cup {"Conflitos"}]
                         /\ conf_df' = conf_df_apos_erro
                         /\ UNCHANGED cache
                    ELSE /\ conf_df' = r.df
                         /\ cache' = [cache EXCEPT !.conflitos = r.df]
                         /\ UNCHANGED run
    /\ pc' = "select"
    /\ UNCHANGED << base, perfis_selecionados, ret, session_state, secrets,
                    environ, event, widget_sel >>

\* mostrar_dashboard: the multiselect and the test of its length
Selecionar ==
    /\ pc = "select"
    /\ LET options == todos_perfis(base)
       IN  /\ perfis_selecionados' = multiselect(widget_sel, options)
           /\ run' = [run EXCEPT !.options = options]
    /\ pc' = IF Len(perfis_selecionados') < 2 THEN "idle" ELSE "calc"
    /\ UNCHANGED << base, conf_df, ret, session_state, secrets, environ, event,
                    widget_sel, cache >>

\* mostrar_dashboard: the call of the reconciliation; the tabs show its result
Calcular ==
    /\ pc = "calc"
    /\ ret' = calcular_conflitos_para_selecionados(base, conf_df, perfis_selecionados)
    /\ run' = [run EXCEPT !.calc = TRUE]
    /\ pc' = "idle"
    /\ UNCHANGED << base, conf_df, perfis_selecionados, session_state, secrets,
                    environ, event, widget_sel, cache >>

NextApp ==
    \/ StartRun
    \/ RequireLogin
    \/ LoginForm
    \/ Sidebar
    \/ CarregarBase
    \/ CarregarConflitos
    \/ Selecionar
    \/ Calcular

SpecApp == InitApp /\ [][NextApp]_vars

-----------------------------------------------------------------------------
(* C3 *)

NoFlagNoReport ==
    /\ ret.conflicts_df = << >>
    /\ \A i \in DOMAIN ret.matriz :
          ret.matriz[i].Conflito = "" /\ ret.matriz[i].PerfisEmConflito = ""

\* C3 as stated: in a run where a loader raised, the error is shown and the
\* reconciliation is not invoked.
C3_LoaderErrorStopsRun ==
    run.raised # {} => (run.raised \subseteq run.errors /\ ~run.calc)

\* C3 amended: every loader error is shown.  When carregar_base_lucasv raised,
\* the run ends there and the reconciliation is not invoked.  When
\* carregar_conflitos raised, the run goes on with an empty conflict table: the
\* reconciliation is still invoked if 2 or more profiles are selected, and it
\* flags and reports nothing.
C3_BaseErrorStopsConflitosErrorGoesOn ==
    /\ run.raised \subseteq run.errors
    /\ "LUCASV" \in run.raised => (pc = "idle" /\ ~run.calc /\ ret = NotCalled)
    /\ "Conflitos" \in run.raised =>
          /\ conf_df = << >>
          /\ (pc = "idle" /\ Len(perfis_selecionados) >= 2) => run.calc
          /\ run.calc => (ret.outcome = "returned" /\ NoFlagNoReport)

\* A run in which carregar_conflitos raised and the reconciliation was invoked
\* on a table where a selected pair co-holds a tuple
C3_Witness ==
    /\ "Conflitos" \in run.raised
    /\ run.calc
    /\ ret.outcome = "returned"
    /\ ret.acessos_comuns_set # {}

-----------------------------------------------------------------------------
(* C10 *)

InDashboard == pc \in {"dashboard", "load_base", "load_conf", "select", "calc"}

Authenticated == session_state.authenticated = "True"

SubmittedValid ==
    /\ pc = "login_form"
    /\ event.kind = "submit"
    /\ event.username = get_credentials(secrets, environ)[1]
    /\ event.password = get_credentials(secrets, environ)[2]

LoginGateStep ==
    \* the dashboard, its loaders and the reconciliation run only when logged in
    /\ (InDashboard' \/ run'.calc \/ base' # << >>) => Authenticated'
    \* authenticated becomes True only by a submitted form with both credentials
    /\ (~Authenticated /\ Authenticated') => SubmittedValid
    \* a failed submission leaves it False
    /\ (pc = "login_form" /\ event.kind = "submit" /\ ~SubmittedValid) =>
          (session_state'.authenticated = "False" /\ pc' = "idle"
           /\ run'.screen = "login")
    \* "Sair" sets it False and reruns the script
    /\ (pc = "dashboard" /\ event.kind = "sair") =>
          (session_state'.authenticated = "False" /\ pc' = "require_login")
    \* a run that starts unauthenticated shows the login form
    /\ (pc = "require_login" /\ ~Authenticated) =>
          (pc' = "login_form" /\ session_state'.authenticated = "False")

\* C10: mostrar_dashboard (loading and reconciliation) executes only while
\* session_state["authenticated"] is True; it becomes True only by a submitted
\* form whose username and password both equal the configured credentials; a
\* failed submission leaves it False; "Sair" makes it False and the next run
\* shows the login form, not the dashboard.
C10_LoginGate == [][LoginGateStep]_vars

\* After a login and a click on "Sair" (the only place that empties the
\* username) the login form is on screen
C10_Witness ==
    /\ session_state = [authenticated |-> "False", username |-> ""]
    /\ pc = "idle"
    /\ run.screen = "login"
    /\ cache.lucasv # << >>

====
